---- MODULE Spec2Model ----
(***************************************************************************)
(* The snake game of src/project1/Snake_Game_Project.py (class SnakeGame)  *)
(* as a state machine: one action per button, key and timer callback.      *)
(* Positions are pixel pairs <<x, y>>, as in the source.                   *)
(* The library of src/project1/Library_Management_System.py (classes       *)
(* Library and LibraryApp) is a second state machine, at the end of the    *)
(* module, with variables of its own.                                      *)
(***************************************************************************)
EXTENDS Integers, Sequences, FiniteSets, TLC

(* ---------------- bounds of the model ---------------- *)

\* The board, scaled down from the source's 800 x 600 pixels.
WIDTH == 80
HEIGHT == 40
\* First tick interval, scaled down from the source's 140 so that the floor
\* MIN_SPEED is reached within MaxScore foods.
INITIAL_SPEED == 44
\* Points per level, scaled down from the source's 5 so that a level-up fits
\* on the scaled board.
LEVEL_SCORE_STEP == 2
\* Obstacles per level, scaled down from the source's literal 2 in
\* "target_count = self.level * 2" so that a level-up fits on the scaled board.
OBSTACLES_PER_LEVEL == 1
\* No food is eaten once the score has reached MaxScore.
MaxScore == 3
\* The high score found in the high-score file at start-up is 0..MaxLoadedHigh.
MaxLoadedHigh == 1
\* A high-score file found by a start-up holds at most MaxFileLen characters.
MaxFileLen == 3

(* ---------------- program constants ---------------- *)

CELL_SIZE == 20
SPEED_INCREMENT == 3
MIN_SPEED == 40

cols == WIDTH \div CELL_SIZE
rows == HEIGHT \div CELL_SIZE

\* getattr(self, "food", None) before the first spawn_food
None == <<>>

\* The cells random.randint(0, cols - 1) * CELL_SIZE, random.randint(0, rows - 1) * CELL_SIZE
\* can draw.
Cells == {<<c * CELL_SIZE, r * CELL_SIZE>> : c \in 0..(cols - 1), r \in 0..(rows - 1)}

\* event.keysym values delivered to on_key_press
Keys == {"p", "P", "Up", "Down", "Left", "Right", "space"}

(* ---------------- state ---------------- *)

VARIABLES
    screen,          \* which frame is packed: "menu" or "game"
    game_running,    \* self.game_running
    paused,          \* self.paused
    after_id,        \* self.after_id; 0 is None
    timers,          \* ids of the game_loop callbacks pending in the Tk event loop
    high_score,      \* self.high_score
    high_score_file, \* the content of HIGH_SCORE_FILE, a sequence of characters, or NoFile
    score,           \* self.score
    level,           \* self.level
    current_speed,   \* self.current_speed
    snake,           \* self.snake, head first
    direction,       \* self.direction (committed)
    next_direction,  \* self.next_direction (buffered)
    obstacles,       \* self.obstacles; the list holds no duplicates (line 289), kept as a set
    food,            \* self.food
    hung,            \* a sampling loop (spawn_food, add_obstacles_for_level) never ends
    just_started,    \* history: the handler that ran last called start_game
    library,         \* LibraryApp.library: books, members and the two id counters
    selected_book_id,    \* LibraryApp.selected_book_id; 0 is None
    selected_member_id,  \* LibraryApp.selected_member_id; 0 is None
    current_role     \* LibraryApp.current_role

\* The variables of the library program.
library_vars == <<library, selected_book_id, selected_member_id, current_role>>

\* The variables of the snake game.
snake_vars == <<screen, game_running, paused, after_id, timers, high_score,
                high_score_file, score, level, current_speed, snake, direction,
                next_direction, obstacles, food, hung, just_started>>

vars == <<screen, game_running, paused, after_id, timers, high_score, high_score_file,
          score, level, current_speed, snake, direction, next_direction, obstacles,
          food, hung, just_started, library, selected_book_id, selected_member_id,
          current_role>>

\* The object's fields as one record: the handlers below map a record to the
\* set of records the handler can leave behind (one per random draw).
Self ==
    [screen |-> screen, game_running |-> game_running, paused |-> paused,
     after_id |-> after_id, timers |-> timers, high_score |-> high_score,
     high_score_file |-> high_score_file,
     score |-> score, level |-> level, current_speed |-> current_speed,
     snake |-> snake, direction |-> direction, next_direction |-> next_direction,
     obstacles |-> obstacles, food |-> food, hung |-> hung]

Becomes(s) ==
    /\ screen' = s.screen
    /\ game_running' = s.game_running
    /\ paused' = s.paused
    /\ after_id' = s.after_id
    /\ timers' = s.timers
    /\ high_score' = s.high_score
    /\ high_score_file' = s.high_score_file
    /\ score' = s.score
    /\ level' = s.level
    /\ current_speed' = s.current_speed
    /\ snake' = s.snake
    /\ direction' = s.direction
    /\ next_direction' = s.next_direction
    /\ obstacles' = s.obstacles
    /\ food' = s.food
    /\ hung' = s.hung

\* The outcomes of a step of a handler from which the handler goes on, and
\* those in which the step never returned.
Returned(S) == {s \in S : ~s.hung}
Stuck(S) == {s \in S : s.hung}

(* ---------------- the high-score file ---------------- *)

\* os.path.exists(HIGH_SCORE_FILE) is False
NoFile == <<"ENOENT">>

\* The decimal digits, Digits[d + 1] being the character of d.
Digits == <<"0", "1", "2", "3", "4", "5", "6", "7", "8", "9">>

IsDigit(c) == \E d \in 0..9 : Digits[d + 1] = c

DigitOf(c) == CHOOSE d \in 0..9 : Digits[d + 1] = c

\* The characters str.strip() removes and int() skips at both ends.
Whitespace == {" ", "\n"}

\* str(n) of a natural number: its decimal digits, most significant first.
RECURSIVE str_nat(_)
str_nat(n) ==
    IF n < 10 THEN <<Digits[n + 1]>>
    ELSE str_nat(n \div 10) \o <<Digits[(n % 10) + 1]>>

\* str(n)
str(n) == IF n < 0 THEN <<"-">> \o str_nat(0 - n) ELSE str_nat(n)

RECURSIVE lstrip(_)
lstrip(txt) ==
    IF txt # <<>> /\ txt[1] \in Whitespace THEN lstrip(Tail(txt)) ELSE txt

RECURSIVE rstrip(_)
rstrip(txt) ==
    IF txt # <<>> /\ txt[Len(txt)] \in Whitespace
    THEN rstrip(SubSeq(txt, 1, Len(txt) - 1))
    ELSE txt

\* txt.strip()
strip(txt) == rstrip(lstrip(txt))

\* The number written by a sequence of digits, most significant first.
RECURSIVE digits_value(_)
digits_value(ds) ==
    IF ds = <<>> THEN 0
    ELSE 10 * digits_value(SubSeq(ds, 1, Len(ds) - 1)) + DigitOf(ds[Len(ds)])

\* int(txt): surrounding whitespace skipped, one optional sign, then at least
\* one digit and nothing else; ok is FALSE where int raises ValueError.
int(txt) ==
    LET t == strip(txt)
        signed == t # <<>> /\ t[1] \in {"+", "-"}
        body == IF signed THEN Tail(t) ELSE t
    IN  IF body # <<>> /\ \A i \in 1..Len(body) : IsDigit(body[i])
        THEN [ok |-> TRUE,
              value |-> IF t[1] = "-" THEN 0 - digits_value(body) ELSE digits_value(body)]
        ELSE [ok |-> FALSE, value |-> 0]

\* load_high_score: nothing is assigned when the file does not exist; any
\* exception of the read or of int() yields 0.
load_high_score(s) ==
    IF s.high_score_file = NoFile THEN s
    ELSE LET text == strip(s.high_score_file)
             r == int(IF text = <<>> THEN <<"0">> ELSE text)
         IN  [s EXCEPT !.high_score = IF r.ok THEN r.value ELSE 0]

\* Faulty variant of save_high_score: the file is opened for appending, not
\* for writing.
save_high_score_appends(s) ==
    [s EXCEPT !.high_score_file =
                 IF @ = NoFile THEN str(s.high_score) ELSE @ \o str(s.high_score)]

\* save_high_score: the file is replaced by str(self.high_score).
save_high_score(s) == [s EXCEPT !.high_score_file = str(s.high_score)]

(* ---------------- helpers ---------------- *)

Max(a, b) == IF a >= b THEN a ELSE b

\* p in self.snake
InSnake(sn, p) == \E i \in 1..Len(sn) : sn[i] = p

\* The subsets of S with exactly k elements.
RECURSIVE KSubsets(_, _)
KSubsets(S, k) ==
    IF k = 0 THEN {{}}
    ELSE IF S = {} THEN {}
    ELSE LET x == CHOOSE y \in S : TRUE
         IN  {A \cup {x} : A \in KSubsets(S \ {x}, k - 1)} \cup KSubsets(S \ {x}, k)

\* self.after(ms, self.game_loop): a new pending callback; its id is stored in after_id.
\* Tk hands out fresh ids; the smallest id not pending stands for the fresh one.
after(s) ==
    LET id == CHOOSE i \in 1..(Cardinality(s.timers) + 1) :
                  /\ i \notin s.timers
                  /\ \A j \in 1..(i - 1) : j \in s.timers
    IN  [s EXCEPT !.timers = @ \cup {id}, !.after_id = id]

\* if self.after_id: self.after_cancel(self.after_id)
after_cancel(s) ==
    IF s.after_id # 0 THEN [s EXCEPT !.timers = @ \ {s.after_id}] ELSE s

(* ---------------- spawning ---------------- *)

\* Faulty variant of spawn_food: the cell is tested against the snake only.
spawn_food_ignores_obstacles(s) ==
    LET free == {c \in Cells : ~InSnake(s.snake, c)}
    IN  IF free = {} THEN {[s EXCEPT !.hung = TRUE]}
        ELSE {[s EXCEPT !.food = c] : c \in free}

\* spawn_food: rejection sampling until the cell is neither in the snake nor an obstacle.
spawn_food(s) ==
    LET free == {c \in Cells : ~InSnake(s.snake, c) /\ c \notin s.obstacles}
    IN  IF free = {} THEN {[s EXCEPT !.hung = TRUE]}
        ELSE {[s EXCEPT !.food = c] : c \in free}

\* Faulty variant of add_obstacles_for_level: the cell is not tested against the snake.
add_obstacles_for_level_on_snake(s) ==
    LET target_count == s.level * OBSTACLES_PER_LEVEL
        need == target_count - Cardinality(s.obstacles)
        free == {c \in Cells : c # s.food /\ c \notin s.obstacles}
    IN  IF need <= 0 THEN {s}
        ELSE IF Cardinality(free) < need
             THEN {[s EXCEPT !.obstacles = @ \cup free, !.hung = TRUE]}
             ELSE {[s EXCEPT !.obstacles = @ \cup A] : A \in KSubsets(free, need)}

\* add_obstacles_for_level: appends accepted cells until there are level * 2 (scaled: level * OBSTACLES_PER_LEVEL).
add_obstacles_for_level(s) ==
    LET target_count == s.level * OBSTACLES_PER_LEVEL
        need == target_count - Cardinality(s.obstacles)
        free == {c \in Cells : /\ ~InSnake(s.snake, c)
                               /\ c # s.food
                               /\ c \notin s.obstacles}
    IN  IF need <= 0 THEN {s}
        ELSE IF Cardinality(free) < need
             THEN {[s EXCEPT !.obstacles = @ \cup free, !.hung = TRUE]}
             ELSE {[s EXCEPT !.obstacles = @ \cup A] : A \in KSubsets(free, need)}

\* spawn_initial_obstacles
spawn_initial_obstacles(s) == add_obstacles_for_level([s EXCEPT !.obstacles = {}])

(* ---------------- the game loop ---------------- *)

\* The head after one step in direction d (game_loop, lines 312-323).
new_head(head, d) ==
    CASE d = "Up" -> <<head[1], head[2] - CELL_SIZE>>
      [] d = "Down" -> <<head[1], head[2] + CELL_SIZE>>
      [] d = "Left" -> <<head[1] - CELL_SIZE, head[2]>>
      [] d = "Right" -> <<head[1] + CELL_SIZE, head[2]>>
      [] OTHER -> head

\* Faulty variant of check_collision: the obstacle test is missing.
check_collision_no_obstacles(s, head) ==
    LET x == head[1]
        y == head[2]
    IN  \/ x < 0 \/ x >= WIDTH \/ y < 0 \/ y >= HEIGHT
        \/ InSnake(s.snake, head)

\* Faulty variant of check_collision: the tail cell is exempt (head in self.snake[:-1]).
check_collision_tail_exempt(s, head) ==
    LET x == head[1]
        y == head[2]
    IN  \/ x < 0 \/ x >= WIDTH \/ y < 0 \/ y >= HEIGHT
        \/ InSnake(SubSeq(s.snake, 1, Len(s.snake) - 1), head)
        \/ head \in s.obstacles

\* Faulty variant of check_collision: the top wall is not tested.
check_collision_no_top_wall(s, head) ==
    LET x == head[1]
        y == head[2]
    IN  \/ x < 0 \/ x >= WIDTH \/ y >= HEIGHT
        \/ InSnake(s.snake, head)
        \/ head \in s.obstacles

check_collision(s, head) ==
    LET x == head[1]
        y == head[2]
    IN  \/ x < 0 \/ x >= WIDTH \/ y < 0 \/ y >= HEIGHT
        \/ InSnake(s.snake, head)
        \/ head \in s.obstacles

game_over(s) ==
    after_cancel([s EXCEPT !.game_running = FALSE, !.paused = FALSE])

\* Faulty variant of new_level: the base level 1 is missing.
new_level_no_base(sc) == sc \div LEVEL_SCORE_STEP

\* new_level = 1 + self.score // LEVEL_SCORE_STEP
new_level(sc) == 1 + (sc \div LEVEL_SCORE_STEP)

\* Faulty variant of next_speed: the floor is missing.
next_speed_no_floor(sp) == sp - SPEED_INCREMENT

\* Faulty variant of next_speed: the floor is applied before the decrement.
next_speed_floor_first(sp) == Max(MIN_SPEED, sp) - SPEED_INCREMENT

\* max(MIN_SPEED, self.current_speed - SPEED_INCREMENT)
next_speed(sp) == Max(MIN_SPEED, sp - SPEED_INCREMENT)

\* Faulty variant of level_up: the level rises without new obstacles.
level_up_no_obstacles(s) ==
    IF new_level(s.score) > s.level
    THEN {[s EXCEPT !.level = new_level(s.score)]}
    ELSE {s}

\* Level up? (lines 338-344)
level_up(s) ==
    IF new_level(s.score) > s.level
    THEN add_obstacles_for_level([s EXCEPT !.level = new_level(s.score)])
    ELSE {s}

\* update high score (lines 347-349)
update_high_score(s) ==
    IF s.score > s.high_score
    THEN save_high_score([s EXCEPT !.high_score = s.score])
    ELSE s

\* Increase speed (line 355)
speed_up(s) == [s EXCEPT !.current_speed = next_speed(s.current_speed)]

\* The branch of game_loop taken when new_head == self.food (lines 335-355),
\* up to the scheduling of the next step (line 363).
\* Faulty variant of food_eaten: the tail is removed on an eating tick too.
food_eaten_pops_tail(s) ==
    LET levelled == level_up([s EXCEPT !.score = @ + 1, !.snake = SubSeq(@, 1, Len(@) - 1)])
        fed == UNION {spawn_food(update_high_score(x)) : x \in Returned(levelled)}
    IN  Stuck(levelled) \cup Stuck(fed) \cup {after(speed_up(x)) : x \in Returned(fed)}

food_eaten(s) ==
    LET levelled == level_up([s EXCEPT !.score = @ + 1])
        fed == UNION {spawn_food(update_high_score(x)) : x \in Returned(levelled)}
    IN  Stuck(levelled) \cup Stuck(fed) \cup {after(speed_up(x)) : x \in Returned(fed)}

\* Faulty variant of game_loop: the tail is not removed on a move without food.
game_loop_no_pop(s) ==
    IF ~s.game_running THEN {s}
    ELSE IF s.paused THEN {after(s)}
    ELSE LET s1 == [s EXCEPT !.direction = s.next_direction]
             nh == new_head(s1.snake[1], s1.direction)
         IN  IF check_collision(s1, nh) THEN {game_over(s1)}
             ELSE LET s2 == [s1 EXCEPT !.snake = <<nh>> \o @]
                  IN  IF nh = s2.food THEN food_eaten(s2)
                      ELSE {after(s2)}

\* game_loop: one timer callback (lines 300-363).
\* Faulty variant of game_loop: the buffered direction is committed before the
\* pause flag is looked at.
game_loop_commits_when_paused(s) ==
    IF ~s.game_running THEN {s}
    ELSE IF s.paused THEN {after([s EXCEPT !.direction = s.next_direction])}
    ELSE LET s1 == [s EXCEPT !.direction = s.next_direction]
             nh == new_head(s1.snake[1], s1.direction)
         IN  IF check_collision(s1, nh) THEN {game_over(s1)}
             ELSE LET s2 == [s1 EXCEPT !.snake = <<nh>> \o @]
                  IN  IF nh = s2.food THEN food_eaten(s2)
                      ELSE {after([s2 EXCEPT !.snake = SubSeq(@, 1, Len(@) - 1)])}

game_loop(s) ==
    IF ~s.game_running THEN {s}
    ELSE IF s.paused THEN {after(s)}
    ELSE LET s1 == [s EXCEPT !.direction = s.next_direction]
             nh == new_head(s1.snake[1], s1.direction)
         IN  IF check_collision(s1, nh) THEN {game_over(s1)}
             ELSE LET s2 == [s1 EXCEPT !.snake = <<nh>> \o @]
                  IN  IF nh = s2.food THEN food_eaten(s2)
                      ELSE {after([s2 EXCEPT !.snake = SubSeq(@, 1, Len(@) - 1)])}

(* ---------------- lifecycle ---------------- *)

start_x == WIDTH \div 2
start_y == HEIGHT \div 2

\* Faulty variant of start_game: the pending game_loop callback is not
\* cancelled.
start_game_keeps_timer(s) ==
    LET s1 == [s EXCEPT
                  !.paused = FALSE,
                  !.score = 0,
                  !.level = 1,
                  !.current_speed = INITIAL_SPEED,
                  !.snake = << <<start_x, start_y>>,
                               <<start_x - CELL_SIZE, start_y>>,
                               <<start_x - 2 * CELL_SIZE, start_y>> >>,
                  !.direction = "Right",
                  !.next_direction = "Right"]
        fenced == spawn_initial_obstacles(s1)
        fed == UNION {spawn_food(x) : x \in Returned(fenced)}
    IN  Stuck(fenced) \cup Stuck(fed)
          \cup UNION {game_loop([x EXCEPT !.game_running = TRUE]) : x \in Returned(fed)}

start_game(s) ==
    LET s1 == [after_cancel(s) EXCEPT
                  !.paused = FALSE,
                  !.score = 0,
                  !.level = 1,
                  !.current_speed = INITIAL_SPEED,
                  !.snake = << <<start_x, start_y>>,
                               <<start_x - CELL_SIZE, start_y>>,
                               <<start_x - 2 * CELL_SIZE, start_y>> >>,
                  !.direction = "Right",
                  !.next_direction = "Right"]
        fenced == spawn_initial_obstacles(s1)
        fed == UNION {spawn_food(x) : x \in Returned(fenced)}
    IN  Stuck(fenced) \cup Stuck(fed)
          \cup UNION {game_loop([x EXCEPT !.game_running = TRUE]) : x \in Returned(fed)}

\* Faulty variant of return_to_menu: the pending game_loop callback is not
\* cancelled.
return_to_menu_keeps_timer(s) ==
    [s EXCEPT !.game_running = FALSE, !.paused = FALSE, !.screen = "menu"]

return_to_menu(s) ==
    [after_cancel(s) EXCEPT !.game_running = FALSE, !.paused = FALSE, !.screen = "menu"]

(* ---------------- input ---------------- *)

\* Faulty variant of toggle_pause: pausing also throws the buffered direction
\* away.
toggle_pause_drops_intent(s) ==
    [s EXCEPT !.paused = ~s.paused, !.next_direction = s.direction]

toggle_pause(s) == [s EXCEPT !.paused = ~s.paused]

\* key.lower() on the modelled keysyms
lower(key) == IF key = "P" THEN "p" ELSE key

\* Faulty variant of on_key_press: the key is compared with the buffered
\* direction instead of the committed one.
on_key_press_against_buffer(s, key) ==
    IF lower(key) = "p"
    THEN IF s.game_running THEN toggle_pause(s) ELSE s
    ELSE IF ~s.game_running \/ s.paused THEN s
    ELSE IF key = "Up" /\ s.next_direction # "Down" THEN [s EXCEPT !.next_direction = "Up"]
    ELSE IF key = "Down" /\ s.next_direction # "Up" THEN [s EXCEPT !.next_direction = "Down"]
    ELSE IF key = "Left" /\ s.next_direction # "Right" THEN [s EXCEPT !.next_direction = "Left"]
    ELSE IF key = "Right" /\ s.next_direction # "Left" THEN [s EXCEPT !.next_direction = "Right"]
    ELSE s

\* Faulty variant of on_key_press: "p" toggles the pause flag whether or not a
\* game is running.
on_key_press_pause_always(s, key) ==
    IF lower(key) = "p"
    THEN toggle_pause(s)
    ELSE IF ~s.game_running \/ s.paused THEN s
    ELSE IF key = "Up" /\ s.direction # "Down" THEN [s EXCEPT !.next_direction = "Up"]
    ELSE IF key = "Down" /\ s.direction # "Up" THEN [s EXCEPT !.next_direction = "Down"]
    ELSE IF key = "Left" /\ s.direction # "Right" THEN [s EXCEPT !.next_direction = "Left"]
    ELSE IF key = "Right" /\ s.direction # "Left" THEN [s EXCEPT !.next_direction = "Right"]
    ELSE s

\* Faulty variant of on_key_press: movement keys are taken while the game is
\* paused.
on_key_press_while_paused(s, key) ==
    IF lower(key) = "p"
    THEN IF s.game_running THEN toggle_pause(s) ELSE s
    ELSE IF ~s.game_running THEN s
    ELSE IF key = "Up" /\ s.direction # "Down" THEN [s EXCEPT !.next_direction = "Up"]
    ELSE IF key = "Down" /\ s.direction # "Up" THEN [s EXCEPT !.next_direction = "Down"]
    ELSE IF key = "Left" /\ s.direction # "Right" THEN [s EXCEPT !.next_direction = "Left"]
    ELSE IF key = "Right" /\ s.direction # "Left" THEN [s EXCEPT !.next_direction = "Right"]
    ELSE s

\* Faulty variant of on_key_press: an accepted key turns the snake at once
\* instead of being buffered for the next tick.
on_key_press_immediate(s, key) ==
    IF lower(key) = "p"
    THEN IF s.game_running THEN toggle_pause(s) ELSE s
    ELSE IF ~s.game_running \/ s.paused THEN s
    ELSE IF key = "Up" /\ s.direction # "Down" THEN [s EXCEPT !.next_direction = "Up", !.direction = "Up"]
    ELSE IF key = "Down" /\ s.direction # "Up" THEN [s EXCEPT !.next_direction = "Down", !.direction = "Down"]
    ELSE IF key = "Left" /\ s.direction # "Right" THEN [s EXCEPT !.next_direction = "Left", !.direction = "Left"]
    ELSE IF key = "Right" /\ s.direction # "Left" THEN [s EXCEPT !.next_direction = "Right", !.direction = "Right"]
    ELSE s

on_key_press(s, key) ==
    IF lower(key) = "p"
    THEN IF s.game_running THEN toggle_pause(s) ELSE s
    ELSE IF ~s.game_running \/ s.paused THEN s
    ELSE IF key = "Up" /\ s.direction # "Down" THEN [s EXCEPT !.next_direction = "Up"]
    ELSE IF key = "Down" /\ s.direction # "Up" THEN [s EXCEPT !.next_direction = "Down"]
    ELSE IF key = "Left" /\ s.direction # "Right" THEN [s EXCEPT !.next_direction = "Left"]
    ELSE IF key = "Right" /\ s.direction # "Left" THEN [s EXCEPT !.next_direction = "Right"]
    ELSE s

(* ---------------- the state machine ---------------- *)

\* The high-score files a start-up of the game can find: none, or one this
\* program wrote earlier.
StoredHighScores == {NoFile} \cup {str(h) : h \in 0..MaxLoadedHigh}

\* __init__ of a process that finds the high-score file f: high score 0, then
\* load_high_score; not running, not paused, no timer, menu shown. The fields
\* start_game creates are not there yet.
init(f) ==
    load_high_score(
        [screen |-> "menu", game_running |-> FALSE, paused |-> FALSE,
         after_id |-> 0, timers |-> {}, high_score |-> 0, high_score_file |-> f,
         score |-> 0, level |-> 0, current_speed |-> 0, snake |-> <<>>,
         direction |-> "Right", next_direction |-> "Right", obstacles |-> {},
         food |-> None, hung |-> FALSE])

\* The variables hold the record s.
Is(s) ==
    /\ screen = s.screen
    /\ game_running = s.game_running
    /\ paused = s.paused
    /\ after_id = s.after_id
    /\ timers = s.timers
    /\ high_score = s.high_score
    /\ high_score_file = s.high_score_file
    /\ score = s.score
    /\ level = s.level
    /\ current_speed = s.current_speed
    /\ snake = s.snake
    /\ direction = s.direction
    /\ next_direction = s.next_direction
    /\ obstacles = s.obstacles
    /\ food = s.food
    /\ hung = s.hung

\* The library program is not running: its variables hold what a Library and
\* a LibraryApp are constructed with.
NoLibrary ==
    /\ library = [books |-> <<>>, members |-> <<>>, next_book_id |-> 1, next_member_id |-> 1]
    /\ selected_book_id = 0
    /\ selected_member_id = 0
    /\ current_role = "None"

\* The game has been launched next to a high-score file it wrote earlier, or
\* to none.
Init ==
    /\ \E f \in StoredHighScores : Is(init(f))
    /\ just_started = FALSE
    /\ NoLibrary

\* The tick would eat food although the score has reached the model's bound.
EatsAtCap(s) ==
    /\ s.game_running /\ ~s.paused
    /\ s.score >= MaxScore
    /\ new_head(s.snake[1], s.next_direction) = s.food

\* "Start Game" button of the menu frame
StartFromMenu ==
    /\ ~hung
    /\ screen = "menu"
    /\ \E s \in start_game([Self EXCEPT !.screen = "game"]) : Becomes(s)
    /\ just_started' = TRUE
    /\ UNCHANGED library_vars

\* "Play Again" button of the game frame
RestartGame ==
    /\ ~hung
    /\ screen = "game"
    /\ \E s \in start_game(Self) : Becomes(s)
    /\ just_started' = TRUE
    /\ UNCHANGED library_vars

\* "Quit to Menu" button of the game frame
ReturnToMenu ==
    /\ ~hung
    /\ screen = "game"
    /\ Becomes(return_to_menu(Self))
    /\ just_started' = FALSE
    /\ UNCHANGED library_vars

\* A pending game_loop callback fires.
TimerFire ==
    /\ ~hung
    /\ \E id \in timers :
          LET s0 == [Self EXCEPT !.timers = @ \ {id}]
          IN  /\ ~EatsAtCap(s0)
              /\ \E s \in game_loop(s0) : Becomes(s)
    /\ just_started' = FALSE
    /\ UNCHANGED library_vars

\* <KeyPress> binding of the window
KeyPress ==
    /\ ~hung
    /\ \E key \in Keys : Becomes(on_key_press(Self, key))
    /\ just_started' = FALSE
    /\ UNCHANGED library_vars

Next ==
    \/ StartFromMenu
    \/ RestartGame
    \/ ReturnToMenu
    \/ TimerFire
    \/ KeyPress

Spec == Init /\ [][Next]_vars

(* ---------------- the high score from one run to the next ---------------- *)

\* The characters a high-score file found at start-up is made of: some
\* digits, the signs, white space and a character int() does not accept.
FileChars == {"0", "1", "2", "-", "+", " ", "x"}

\* The high-score files a start-up can find when anything may have written them.
FileTexts == UNION {[1..n -> FileChars] : n \in 0..MaxFileLen}

\* on_close: the high score is saved, the timer cancelled, the window destroyed.
on_close(s) == [after_cancel(save_high_score(s)) EXCEPT !.screen = "closed"]

\* The game has been launched next to an arbitrary high-score file, or to none.
InitFile ==
    /\ \E f \in FileTexts \cup {NoFile} : Is(init(f))
    /\ just_started = FALSE
    /\ NoLibrary

\* WM_DELETE_WINDOW: the window is closed.
OnClose ==
    /\ ~hung
    /\ screen # "closed"
    /\ Becomes(on_close(Self))
    /\ just_started' = FALSE
    /\ UNCHANGED library_vars

\* The game is launched again: __init__ of a new process, next to the file the
\* previous one left.
Launch ==
    /\ screen = "closed"
    /\ Becomes(init(high_score_file))
    /\ just_started' = FALSE
    /\ UNCHANGED library_vars

NextFile ==
    \/ OnClose
    \/ Launch

\* The game is launched and closed again and again without being played.
SpecFile == InitFile /\ [][NextFile]_vars

(* ---------------- vocabulary of the claims ---------------- *)

\* The phase of the specification, read off the program's flags. The pause flag
\* is only ever set while game_running is (game_over and return_to_menu clear it).
Phase ==
    IF screen = "menu" THEN "Menu"
    ELSE IF paused THEN "Paused"
    ELSE IF game_running THEN "Running"
    ELSE "GameOver"

\* A session exists: Running, Paused or GameOver.
InSession == Phase # "Menu"

\* The step is start_session of the specification: one of the two buttons
\* that call start_game.
StartSession == just_started'

Opposite(d) ==
    CASE d = "Up" -> "Down"
      [] d = "Down" -> "Up"
      [] d = "Left" -> "Right"
      [] d = "Right" -> "Left"

\* The cell the next tick moves the head to.
NextHead == new_head(snake[1], next_direction)

TailCell == snake[Len(snake)]

OffBoard(p) == p[1] < 0 \/ p[1] >= WIDTH \/ p[2] < 0 \/ p[2] >= HEIGHT

NoDuplicates(sn) == \A i, j \in 1..Len(sn) : i # j => sn[i] # sn[j]

\* The cell the head ran into, in a session that ended by a collision.
CrashCell == new_head(snake[1], direction)

(* ---------------- claims ---------------- *)

\* C1: in a session the buffered direction is never the reverse of the
\* committed direction, and no tick commits the reverse of the direction the
\* previous tick committed.
C1_NoReverse ==
    /\ [](InSession => next_direction # Opposite(direction))
    /\ [][direction' # Opposite(direction) \/ ~TimerFire]_vars

\* A turn has been committed and another intent is buffered on top of it.
C1_Witness ==
    /\ Phase = "Running"
    /\ direction = "Up"
    /\ next_direction = "Left"

\* C2: a tick in phase Running whose new head is off the board, in an obstacle
\* or in a snake cell ends the game in that tick and leaves snake, food,
\* obstacles, score, level, speed and high score as they were.
C2_CollisionEndsGame ==
    [][(/\ Phase = "Running"
        /\ \/ OffBoard(NextHead)
           \/ NextHead \in obstacles
           \/ InSnake(snake, NextHead)
        /\ TimerFire)
       => /\ Phase' = "GameOver"
          /\ UNCHANGED <<snake, food, obstacles, score, level, current_speed, high_score>>]_vars

\* A session that ended in an obstacle after at least one food.
C2_Witness ==
    /\ Phase = "GameOver"
    /\ score >= 1
    /\ CrashCell \in obstacles

\* C3 as stated: on a tick that does not eat food, a new head on the current
\* tail cell is accepted and the phase stays Running.
C3_Original ==
    [][(/\ Phase = "Running"
        /\ NextHead = TailCell
        /\ NextHead # food
        /\ TimerFire)
       => /\ Phase' = "Running"
          /\ snake' = <<NextHead>> \o SubSeq(snake, 1, Len(snake) - 1)]_vars

\* C3 amended: a new head on the current tail cell is a self-collision like
\* any other snake cell: the tick ends the game and the snake does not move.
C3_TailIsOccupied ==
    [][(/\ Phase = "Running"
        /\ NextHead = TailCell
        /\ TimerFire)
       => /\ Phase' = "GameOver"
          /\ snake' = snake]_vars

\* A session that ended with the head running into the tail cell.
C3_Witness ==
    /\ Phase = "GameOver"
    /\ Len(snake) >= 4
    /\ CrashCell = TailCell

\* C4: in phase GameOver nothing but start_session and return_to_menu changes
\* phase, snake, food, obstacles, score, level, speed or high score.
C4_GameOverFrozen ==
    [][Phase = "GameOver"
       => \/ /\ Phase' = "GameOver"
             /\ UNCHANGED <<snake, food, obstacles, score, level, current_speed, high_score>>
          \/ StartSession
          \/ ReturnToMenu]_vars

\* A session that ended by running off the board.
C4_Witness ==
    /\ Phase = "GameOver"
    /\ OffBoard(CrashCell)

\* C5: a tick whose new head is the food cell adds 1 to the score, prepends
\* the new head to the unchanged snake, and leaves the food on a cell that is
\* neither a snake cell nor an obstacle.
C5_EatGrows ==
    /\ [][(/\ Phase = "Running"
           /\ NextHead = food
           /\ ~hung'
           /\ TimerFire)
          => /\ score' = score + 1
             /\ snake' = <<NextHead>> \o snake
             /\ ~InSnake(snake', food')
             /\ food' \notin obstacles']_vars
    /\ [][(score' = 1 /\ ~hung' /\ StartSession)
          => /\ snake' = << <<start_x + CELL_SIZE, start_y>>, <<start_x, start_y>>,
                            <<start_x - CELL_SIZE, start_y>>,
                            <<start_x - 2 * CELL_SIZE, start_y>> >>
             /\ ~InSnake(snake', food')
             /\ food' \notin obstacles']_vars

\* The snake has grown by two foods and the level-up added an obstacle.
C5_Witness ==
    /\ Phase = "Running"
    /\ score = 2
    /\ Len(snake) = 5
    /\ Cardinality(obstacles) > OBSTACLES_PER_LEVEL

\* C6: an accepted tick that eats no food keeps the snake's length, leaves
\* score, level, speed, food and obstacles alone, and leaves no two snake
\* segments on the same cell.
C6_MoveKeepsLength ==
    [][(/\ Phase = "Running"
        /\ ~OffBoard(NextHead)
        /\ NextHead \notin obstacles
        /\ ~InSnake(snake, NextHead)
        /\ NextHead # food
        /\ TimerFire)
       => /\ Len(snake') = Len(snake)
          /\ snake'[1] = NextHead
          /\ NoDuplicates(snake')
          /\ UNCHANGED <<score, level, current_speed, food, obstacles>>]_vars

\* The snake has turned and moved on without having eaten.
C6_Witness ==
    /\ Phase = "Running"
    /\ score = 0
    /\ direction = "Left"
    /\ Len(snake) = 3

\* C7: in a session level = 1 + score // LEVEL_SCORE_STEP, and within a
\* session the level never decreases.
C7_LevelFormula ==
    /\ [](InSession => level = 1 + (score \div LEVEL_SCORE_STEP))
    /\ [][level' >= level \/ StartSession]_vars

\* The level has gone up.
C7_Witness ==
    /\ InSession
    /\ level = 2
    /\ score >= LEVEL_SCORE_STEP

\* C8: in a session there are exactly level * (obstacles per level) obstacles;
\* within a session obstacles are only added, and only by a tick that raises
\* the level.
C8_ObstacleCount ==
    /\ [](InSession /\ ~hung => Cardinality(obstacles) = level * OBSTACLES_PER_LEVEL)
    /\ [][\/ /\ obstacles \subseteq obstacles'
              /\ (obstacles' # obstacles => level' > level)
           \/ StartSession]_vars

\* The obstacles of level 2 are on the board.
C8_Witness ==
    /\ InSession
    /\ ~hung
    /\ level = 2
    /\ Cardinality(obstacles) = 2 * OBSTACLES_PER_LEVEL

\* C9: in a session the speed lies in [MIN_SPEED, INITIAL_SPEED], and within
\* a session it never increases.
C9_SpeedBounds ==
    /\ [](InSession => MIN_SPEED <= current_speed /\ current_speed <= INITIAL_SPEED)
    /\ [][current_speed' <= current_speed \/ StartSession]_vars

\* The floor has been reached by a step that would have overshot it.
C9_Witness ==
    /\ InSession
    /\ current_speed = MIN_SPEED
    /\ INITIAL_SPEED - score * SPEED_INCREMENT < MIN_SPEED

\* C10: in a session the food is neither a snake cell nor an obstacle, and no
\* obstacle is a snake cell.
C10_NoOverlap ==
    (InSession /\ ~hung)
    => /\ ~InSnake(snake, food)
       /\ food \notin obstacles
       /\ \A o \in obstacles : ~InSnake(snake, o)

\* A restarted session that has eaten, after a session that reached a level-up.
C10_Witness ==
    /\ Phase = "Running"
    /\ score >= 1
    /\ score < LEVEL_SCORE_STEP
    /\ high_score >= LEVEL_SCORE_STEP

\* The three cells start_game lays the snake on, head first.
SpawnSnake ==
    << <<start_x, start_y>>,
       <<start_x - CELL_SIZE, start_y>>,
       <<start_x - 2 * CELL_SIZE, start_y>> >>

\* C11: immediately after start_session the phase is Running, the score is 0,
\* the level 1, the speed INITIAL_SPEED, the snake is exactly the three spawn
\* cells with committed and pending direction Right, the initial obstacles are
\* all there and a food cell exists.
C11_FreshSession ==
    [][StartSession =>
          /\ Phase' = "Running"
          /\ score' = 0
          /\ level' = 1
          /\ current_speed' = INITIAL_SPEED
          /\ snake' = SpawnSnake
          /\ direction' = "Right"
          /\ next_direction' = "Right"
          /\ Cardinality(obstacles') = OBSTACLES_PER_LEVEL
          /\ food' \in Cells]_vars

\* The step is toggle_pause of the specification: the "p" key.
PauseKey ==
    /\ ~hung
    /\ \E key \in {"p", "P"} : Becomes(on_key_press(Self, key))
    /\ just_started' = FALSE

\* C12: toggle_pause turns Running into Paused and Paused into Running and
\* changes nothing else; in Menu and in GameOver it changes nothing at all.
C12_TogglePause ==
    /\ [](\A key \in {"p", "P"} :
             LET t == on_key_press(Self, key)
             IN  /\ Phase = "Running" => t = [Self EXCEPT !.paused = TRUE]
                 /\ Phase = "Paused" => t = [Self EXCEPT !.paused = FALSE]
                 /\ Phase \in {"Menu", "GameOver"} => t = Self)
    /\ [][PauseKey =>
            /\ Phase = "Running" => Phase' = "Paused"
            /\ Phase = "Paused" => Phase' = "Running"
            /\ Phase \in {"Menu", "GameOver"} => Phase' = Phase]_vars

\* Paused in the middle of a session that has eaten once.
C12_Witness ==
    /\ Phase = "Paused"
    /\ score = 1
    /\ timers # {}

\* Everything the specification counts as session state, phase included.
SessionState ==
    <<Phase, snake, direction, next_direction, food, obstacles, score, level,
      current_speed, high_score>>

\* C13: a tick delivered while the phase is Paused, Menu or GameOver changes no
\* session state; in particular the pending direction is not committed while
\* Paused. (The callback of a paused session re-arms itself, which is not
\* session state.)
C13_IdleTick ==
    /\ [](/\ Phase \in {"Menu", "GameOver"} => game_loop(Self) = {Self}
          /\ Phase = "Paused" => game_loop(Self) = {after(Self)})
    /\ [][(Phase # "Running" /\ TimerFire) => UNCHANGED SessionState]_vars

\* Paused with a turn buffered that the snake has not taken yet.
C13_Witness ==
    /\ Phase = "Paused"
    /\ next_direction # direction
    /\ timers # {}

\* The keys that carry a set_intent of the specification.
MoveKeys == {"Up", "Down", "Left", "Right"}

\* C14: set_intent while the phase is Menu, Paused or GameOver is rejected
\* without any change of state; the pending direction therefore stays, through
\* a pause and the resume, the one that was pending when the pause began.
C14_IntentNeedsRunning ==
    /\ [](Phase # "Running" => \A key \in MoveKeys : on_key_press(Self, key) = Self)
    /\ [][Phase # "Running" => (next_direction' = next_direction \/ StartSession)]_vars

\* Paused between a buffered turn upwards and the tick that will take it.
C14_Witness ==
    /\ Phase = "Paused"
    /\ direction = "Right"
    /\ next_direction = "Up"

\* C15: in Running an accepted set_intent changes only the pending direction,
\* and the next tick commits the intent accepted last before it computes the
\* new head.
C15_IntentCommittedByTick ==
    /\ [](Phase = "Running" =>
             \A key \in MoveKeys :
                 on_key_press(Self, key) \in {Self, [Self EXCEPT !.next_direction = key]})
    /\ [][(Phase = "Running" /\ TimerFire) =>
             /\ direction' = next_direction
             /\ snake' # snake => snake'[1] = new_head(snake[1], next_direction)]_vars

\* Running with a downward turn accepted and not yet taken.
C15_Witness ==
    /\ Phase = "Running"
    /\ direction = "Right"
    /\ next_direction = "Down"
    /\ score = 0

\* C16: the high score changes only in a tick that eats food and brings the
\* score above it, and then becomes that score; start_session, return_to_menu,
\* set_intent, toggle_pause and every other tick leave it unchanged. Loaded
\* non-negative, it therefore never decreases and is never below the score.
C16_HighScoreOnlyByEating ==
    /\ [][high_score' # high_score =>
             /\ ~StartSession
             /\ score' = score + 1
             /\ score' > high_score
             /\ high_score' = score'
             /\ TimerFire]_vars
    /\ [][high_score' >= high_score]_vars
    /\ [](high_score >= score)

\* The object as __init__ leaves it and "Start Game" finds it: no session has
\* run, so there is no snake, no obstacle and no food attribute yet.
FirstStart ==
    [Self EXCEPT !.screen = "game", !.game_running = FALSE, !.paused = FALSE,
                 !.after_id = 0, !.timers = {}, !.score = 0, !.level = 0,
                 !.current_speed = 0, !.snake = <<>>, !.direction = "Right",
                 !.next_direction = "Right", !.obstacles = {}, !.food = None,
                 !.hung = FALSE]

\* What start_game hands to the new session.
SessionOf(s) ==
    [game_running |-> s.game_running, paused |-> s.paused, snake |-> s.snake,
     direction |-> s.direction, next_direction |-> s.next_direction,
     food |-> s.food, obstacles |-> s.obstacles, score |-> s.score,
     level |-> s.level, current_speed |-> s.current_speed]

\* C17: the sessions start_session can produce from GameOver, after a previous
\* session, are exactly those it can produce from Menu when no session has run:
\* nothing of the previous session influences the new one.
C17_RestartLikeFirstStart ==
    Phase = "GameOver" =>
        {SessionOf(t) : t \in start_game(Self)} = {SessionOf(t) : t \in start_game(FirstStart)}

\* C18: return_to_menu, called in any phase, leaves the phase Menu with the
\* pause flag cleared and no tick pending; from then on every tick, set_intent
\* and toggle_pause changes nothing until start_session; the high score is
\* retained.
C18_ReturnToMenu ==
    /\ [](~hung =>
             LET t == return_to_menu(Self)
             IN  /\ t.screen = "menu"
                 /\ ~t.game_running
                 /\ ~t.paused
                 /\ t.timers = {}
                 /\ t.high_score = high_score)
    /\ [][ReturnToMenu =>
             /\ Phase' = "Menu"
             /\ timers' = {}
             /\ high_score' = high_score]_vars
    /\ [][Phase = "Menu" =>
             \/ UNCHANGED <<SessionState, game_running, paused, timers>>
             \/ StartSession]_vars

\* Back in the menu after a session in which the snake has eaten.
C18_Witness ==
    /\ Phase = "Menu"
    /\ Len(snake) > 3
    /\ high_score >= 1
    /\ timers = {}

\* C19: every invocation of spawn_food and of add_obstacles_for_level finds a
\* cell its rejection test accepts, so no sampling loop runs forever.
C19_SpawnTerminates == ~hung

\* The text is an integer numeral: white space, an optional sign, digits,
\* white space.
IsIntegerText(txt) ==
    \E a \in 1..Len(txt) : \E b \in a..Len(txt) :
        /\ \A i \in 1..(a - 1) : txt[i] \in Whitespace
        /\ \A i \in (b + 1)..Len(txt) : txt[i] \in Whitespace
        /\ \/ \A i \in a..b : IsDigit(txt[i])
           \/ /\ txt[a] \in {"+", "-"}
              /\ a < b
              /\ \A i \in (a + 1)..b : IsDigit(txt[i])

\* C20: the persisted high score round-trips: a non-negative high score saved
\* and loaded again is the same number, over any number of such cycles; a
\* start-up that finds no file, or a file whose content is not an integer,
\* has high score 0.
C20_RoundTrip ==
    /\ [](high_score >= 0 =>
             load_high_score([save_high_score(Self) EXCEPT !.high_score = 0]).high_score
                = high_score)
    /\ [][(Launch /\ high_score >= 0) => high_score' = high_score]_vars
    /\ [](screen = "menu" =>
             /\ high_score_file = NoFile => high_score = 0
             /\ (high_score_file # NoFile /\ ~IsIntegerText(high_score_file)) => high_score = 0)

\* A window closed on a high score of several digits, which the file now holds
\* in the form save_high_score writes although the start-up found it written
\* otherwise.
C20_Witness ==
    /\ screen = "closed"
    /\ high_score >= 10
    /\ high_score_file = str(high_score)
    /\ Len(high_score_file) = 2

\* Two cells are orthogonal neighbours: one cell apart in exactly one axis.
Adjacent(p, q) ==
    \/ p[2] = q[2] /\ (p[1] - q[1] = CELL_SIZE \/ q[1] - p[1] = CELL_SIZE)
    \/ p[1] = q[1] /\ (p[2] - q[2] = CELL_SIZE \/ q[2] - p[2] = CELL_SIZE)

\* The board is a whole number of cells wide and high, as the source's
\* 800 x 600 board of 20-pixel cells is.
WholeCells == WIDTH % CELL_SIZE = 0 /\ HEIGHT % CELL_SIZE = 0

\* C21: in a session every snake cell lies inside the grid
\* [0, cols) x [0, rows), and every segment of the snake is orthogonally
\* adjacent to the next one.
C21_SnakeOnGridContiguous ==
    InSession =>
        /\ \A i \in 1..Len(snake) : ~OffBoard(snake[i])
        /\ WholeCells => \A i \in 1..Len(snake) : snake[i] \in Cells
        /\ \A i \in 1..(Len(snake) - 1) : Adjacent(snake[i], snake[i + 1])

\* A grown snake that has turned into the top row of the board.
C21_Witness ==
    /\ InSession
    /\ Len(snake) >= 4
    /\ snake[1][2] = 0
    /\ snake[2][2] = CELL_SIZE

\* C22: at most one game_loop callback is pending at any time, whatever the
\* interleaving of starts, restarts, pause toggles, returns to the menu, game
\* overs and timer firings; it is the one self.after_id names; none is pending
\* in Menu or in GameOver.
C22_OneTimer ==
    /\ Cardinality(timers) <= 1
    /\ timers \subseteq {after_id}
    /\ Phase \in {"Menu", "GameOver"} => timers = {}

\* A session started anew after an earlier one of the same run had raised the
\* high score, with its tick pending.
C22_Witness ==
    /\ just_started
    /\ Phase = "Running"
    /\ Cardinality(timers) = 1
    /\ high_score > MaxLoadedHigh

\* C23: in a session the snake's length is 3 + score.
C23_LengthIsScorePlus3 == InSession => Len(snake) = 3 + score

\* A session that ended after two foods.
C23_Witness ==
    /\ Phase = "GameOver"
    /\ score = 2
    /\ Len(snake) = 5

\* The least n with n * d >= a, for a >= 0 and d > 0.
CeilDiv(a, d) == (a + d - 1) \div d

\* C24: between the ticks of a session the speed is
\* max(MIN_SPEED, INITIAL_SPEED - SPEED_INCREMENT * score); the floor MIN_SPEED
\* is met exactly once the score is at least
\* ceil((INITIAL_SPEED - MIN_SPEED) / SPEED_INCREMENT).
C24_SpeedFormula ==
    (InSession /\ ~hung) =>
        /\ current_speed = Max(MIN_SPEED, INITIAL_SPEED - SPEED_INCREMENT * score)
        /\ score >= CeilDiv(INITIAL_SPEED - MIN_SPEED, SPEED_INCREMENT)
              => current_speed = MIN_SPEED

\* Paused on the floor, which the last food would have overshot.
C24_Witness ==
    /\ Phase = "Paused"
    /\ score = CeilDiv(INITIAL_SPEED - MIN_SPEED, SPEED_INCREMENT)
    /\ current_speed = MIN_SPEED
    /\ (INITIAL_SPEED - MIN_SPEED) % SPEED_INCREMENT # 0

(* ======================================================================= *)
(* The library of src/project1/Library_Management_System.py.               *)
(* A book is its two counters, a member the list of the book ids of the    *)
(* borrow records, in the order they were appended; titles, authors,       *)
(* categories, names and dates are not modelled.                           *)
(* ======================================================================= *)

\* At most MaxBooks books and MaxMembers members are ever added; a book is
\* entered with 1..MaxCopies copies.
MaxBooks == 1
MaxMembers == 2
MaxCopies == 2

\* The value the code's `is None` tests find: no id, ids starting at 1.
NoId == 0

\* No exception was raised.
NoError == ""

\* d[k] = v on a dict
Put(d, k, v) == [x \in (DOMAIN d) \cup {k} |-> IF x = k THEN v ELSE d[x]]

\* del d[k]
Del(d, k) == [x \in (DOMAIN d) \ {k} |-> d[x]]

\* Book.__init__: all copies available.
Book(total_copies) ==
    [total_copies |-> total_copies, available_copies |-> total_copies]

\* Member.__init__: nothing borrowed.
Member == [borrowed_books |-> <<>>]

\* Library.__init__
Library ==
    [books |-> <<>>, members |-> <<>>, next_book_id |-> 1, next_member_id |-> 1]

\* Library.add_book
Library_add_book(lib, total_copies) ==
    [lib EXCEPT !.books = Put(@, lib.next_book_id, Book(total_copies)),
                !.next_book_id = @ + 1]

\* Library.add_member
Library_add_member(lib) ==
    [lib EXCEPT !.members = Put(@, lib.next_member_id, Member),
                !.next_member_id = @ + 1]

\* any(item["book_id"] == book_id for item in borrowed_books)
Holds(borrowed_books, book_id) ==
    \E i \in 1..Len(borrowed_books) : borrowed_books[i] = book_id

\* list.remove: the first element equal to x is taken out.
RECURSIVE remove(_, _)
remove(l, x) ==
    IF l = <<>> THEN l
    ELSE IF Head(l) = x THEN Tail(l)
    ELSE <<Head(l)>> \o remove(Tail(l), x)

\* Faulty variant of Library_issue_book: the copy is taken off the shelf before
\* the member's records are searched for the book.
Library_issue_book_decrements_first(lib, member_id, book_id) ==
    IF member_id \notin DOMAIN lib.members
    THEN [error |-> "Invalid member ID", library |-> lib]
    ELSE IF book_id \notin DOMAIN lib.books
    THEN [error |-> "Invalid book ID", library |-> lib]
    ELSE IF lib.books[book_id].available_copies <= 0
    THEN [error |-> "No copies available", library |-> lib]
    ELSE LET taken == [lib EXCEPT !.books[book_id].available_copies = @ - 1]
         IN  IF Holds(lib.members[member_id].borrowed_books, book_id)
             THEN [error |-> "Member already borrowed this book", library |-> taken]
             ELSE [error |-> NoError,
                   library |-> [taken EXCEPT !.members[member_id].borrowed_books =
                                                Append(@, book_id)]]

\* Library.issue_book: the ValueError raised, if any, and the library the call
\* leaves behind.
Library_issue_book(lib, member_id, book_id) ==
    IF member_id \notin DOMAIN lib.members
    THEN [error |-> "Invalid member ID", library |-> lib]
    ELSE IF book_id \notin DOMAIN lib.books
    THEN [error |-> "Invalid book ID", library |-> lib]
    ELSE IF lib.books[book_id].available_copies <= 0
    THEN [error |-> "No copies available", library |-> lib]
    ELSE IF Holds(lib.members[member_id].borrowed_books, book_id)
    THEN [error |-> "Member already borrowed this book", library |-> lib]
    ELSE [error |-> NoError,
          library |-> [lib EXCEPT !.books[book_id].available_copies = @ - 1,
                                  !.members[member_id].borrowed_books = Append(@, book_id)]]

\* Library.return_book: the ValueError raised, if any, and the library the
\* call leaves behind.
Library_return_book(lib, member_id, book_id) ==
    IF member_id \notin DOMAIN lib.members
    THEN [error |-> "Invalid member ID", library |-> lib]
    ELSE IF book_id \notin DOMAIN lib.books
    THEN [error |-> "Invalid book ID", library |-> lib]
    ELSE IF ~Holds(lib.members[member_id].borrowed_books, book_id)
    THEN [error |-> "This member did not borrow that book", library |-> lib]
    ELSE [error |-> NoError,
          library |-> [lib EXCEPT !.members[member_id].borrowed_books = remove(@, book_id),
                                  !.books[book_id].available_copies = @ + 1]]

(* ---------------- the window ---------------- *)

\* The LibraryApp's fields as one record.
App ==
    [library |-> library, selected_book_id |-> selected_book_id,
     selected_member_id |-> selected_member_id, current_role |-> current_role]

AppBecomes(a) ==
    /\ library' = a.library
    /\ selected_book_id' = a.selected_book_id
    /\ selected_member_id' = a.selected_member_id
    /\ current_role' = a.current_role

\* int(copies_str) with "positive" required: the number, or 0 where the handler
\* shows "Copies must be a positive integer".
positive_int(copies_str) ==
    LET n == int(copies_str)
    IN  IF n.ok /\ n.value > 0 THEN n.value ELSE 0

\* LibraryApp.add_book; filled: title and author are not empty.
LibraryApp_add_book(a, filled, copies_text) ==
    LET copies_str == strip(copies_text)
    IN  IF ~filled \/ copies_str = <<>> THEN a
        ELSE IF positive_int(copies_str) = 0 THEN a
        ELSE [a EXCEPT !.library = Library_add_book(@, positive_int(copies_str))]

\* LibraryApp.on_book_select; row: the id in the selected row, NoId when the
\* selection is empty.
on_book_select(a, row) == [a EXCEPT !.selected_book_id = row]

\* LibraryApp.update_book; filled: title and author are not empty.
LibraryApp_update_book(a, filled, copies_text) ==
    LET copies_str == strip(copies_text)
        id == a.selected_book_id
    IN  IF id = NoId THEN a
        ELSE IF id \notin DOMAIN a.library.books THEN a
        ELSE IF ~filled \/ copies_str = <<>> THEN a
        ELSE IF positive_int(copies_str) = 0 THEN a
        ELSE LET book == a.library.books[id]
                 new_total == positive_int(copies_str)
                 diff == new_total - book.total_copies
                 available == book.available_copies + diff
             IN  [a EXCEPT !.library.books[id] =
                              [total_copies |-> new_total,
                               available_copies |-> IF available < 0 THEN 0 ELSE available]]

\* LibraryApp.delete_book; yes: the answer to "Are you sure".
LibraryApp_delete_book(a, yes) ==
    LET id == a.selected_book_id
    IN  IF id = NoId THEN a
        ELSE IF id \notin DOMAIN a.library.books THEN a
        ELSE IF a.library.books[id].available_copies # a.library.books[id].total_copies THEN a
        ELSE IF yes
             THEN [a EXCEPT !.library.books = Del(@, id), !.selected_book_id = NoId]
             ELSE a

\* LibraryApp.add_member; filled: the name is not empty.
LibraryApp_add_member(a, filled) ==
    IF ~filled THEN a ELSE [a EXCEPT !.library = Library_add_member(@)]

\* LibraryApp.on_member_select
on_member_select(a, row) == [a EXCEPT !.selected_member_id = row]

\* LibraryApp.delete_member; yes: the answer to "Are you sure".
LibraryApp_delete_member(a, yes) ==
    LET id == a.selected_member_id
    IN  IF id = NoId THEN a
        ELSE IF id \notin DOMAIN a.library.members THEN a
        ELSE IF a.library.members[id].borrowed_books # <<>> THEN a
        ELSE IF yes
             THEN [a EXCEPT !.library.members = Del(@, id), !.selected_member_id = NoId]
             ELSE a

\* LibraryApp.issue_book: both ids must parse; a ValueError of the library is
\* shown and the handler returns.
LibraryApp_issue_book(a, mid, bid) ==
    LET member_id == int(strip(mid))
        book_id == int(strip(bid))
    IN  IF ~member_id.ok \/ ~book_id.ok THEN a
        ELSE [a EXCEPT !.library = Library_issue_book(@, member_id.value, book_id.value).library]

\* LibraryApp.return_book
LibraryApp_return_book(a, mid, bid) ==
    LET member_id == int(strip(mid))
        book_id == int(strip(bid))
    IN  IF ~member_id.ok \/ ~book_id.ok THEN a
        ELSE [a EXCEPT !.library = Library_return_book(@, member_id.value, book_id.value).library]

(* ---------------- the library's state machine ---------------- *)

\* What can be typed into the Copies entry.
CopiesTexts == {<<>>, <<"x">>, <<" ">>} \cup {str(n) : n \in 0..MaxCopies}

\* What can be typed into the Member ID entry: the ids ever given, 0 (never an
\* id) and a text that is no number.
MemberIdTexts == {<<"x">>} \cup {str(n) : n \in 0..MaxMembers}

\* What can be typed into the Book ID entry.
BookIdTexts == {<<"x">>} \cup {str(n) : n \in 0..MaxBooks}

\* current_role after the login dialog: logged in, or the dialog closed without
\* a login.
Roles == {"admin", "student", "None"}

\* apply_role_permissions: the add, update and delete buttons are disabled for
\* a student.
ButtonsEnabled == current_role # "student"

\* LibraryApp.__init__ with no data file, then the login dialog; the snake game
\* is not running.
InitLibrary ==
    /\ Is(init(NoFile))
    /\ just_started = FALSE
    /\ library = Library
    /\ selected_book_id = NoId
    /\ selected_member_id = NoId
    /\ current_role \in Roles

\* "Add Book" button
AddBook ==
    /\ ButtonsEnabled
    /\ library.next_book_id <= MaxBooks
    /\ \E filled \in BOOLEAN, copies_text \in CopiesTexts :
          AppBecomes(LibraryApp_add_book(App, filled, copies_text))
    /\ UNCHANGED snake_vars

\* <<TreeviewSelect>> of the books table
BookSelect ==
    /\ \E row \in (DOMAIN library.books) \cup {NoId} : AppBecomes(on_book_select(App, row))
    /\ UNCHANGED snake_vars

\* "Update Selected" button of the books tab
UpdateBook ==
    /\ ButtonsEnabled
    /\ \E filled \in BOOLEAN, copies_text \in CopiesTexts :
          AppBecomes(LibraryApp_update_book(App, filled, copies_text))
    /\ UNCHANGED snake_vars

\* "Delete Selected" button of the books tab
DeleteBook ==
    /\ ButtonsEnabled
    /\ \E yes \in BOOLEAN : AppBecomes(LibraryApp_delete_book(App, yes))
    /\ UNCHANGED snake_vars

\* "Add Member" button
AddMember ==
    /\ ButtonsEnabled
    /\ library.next_member_id <= MaxMembers
    /\ \E filled \in BOOLEAN : AppBecomes(LibraryApp_add_member(App, filled))
    /\ UNCHANGED snake_vars

\* <<TreeviewSelect>> of the members table
MemberSelect ==
    /\ \E row \in (DOMAIN library.members) \cup {NoId} : AppBecomes(on_member_select(App, row))
    /\ UNCHANGED snake_vars

\* "Delete Selected" button of the members tab
DeleteMember ==
    /\ ButtonsEnabled
    /\ \E yes \in BOOLEAN : AppBecomes(LibraryApp_delete_member(App, yes))
    /\ UNCHANGED snake_vars

\* "Issue Book" button
IssueBook ==
    /\ \E mid \in MemberIdTexts, bid \in BookIdTexts : AppBecomes(LibraryApp_issue_book(App, mid, bid))
    /\ UNCHANGED snake_vars

\* "Return Book" button
ReturnBook ==
    /\ \E mid \in MemberIdTexts, bid \in BookIdTexts : AppBecomes(LibraryApp_return_book(App, mid, bid))
    /\ UNCHANGED snake_vars

NextLibrary ==
    \/ AddBook
    \/ BookSelect
    \/ UpdateBook
    \/ DeleteBook
    \/ AddMember
    \/ MemberSelect
    \/ DeleteMember
    \/ IssueBook
    \/ ReturnBook

SpecLibrary == InitLibrary /\ [][NextLibrary]_vars

(* ---------------- vocabulary of the library claims ---------------- *)

\* The members holding a borrow record for the book.
Holders(book_id) ==
    {m \in DOMAIN library.members : Holds(library.members[m].borrowed_books, book_id)}

\* C25: for every book, 0 <= available_copies <= total_copies, and
\* available_copies plus the number of members holding a borrow record for the
\* book is total_copies.
C25_CopiesConserved ==
    \A b \in DOMAIN library.books :
        /\ 0 <= library.books[b].available_copies
        /\ library.books[b].available_copies <= library.books[b].total_copies
        /\ library.books[b].available_copies + Cardinality(Holders(b))
              = library.books[b].total_copies

\* Every borrow record of every member names a book of the library.
RecordsReferToBooks ==
    \A m \in DOMAIN library.members :
        \A i \in 1..Len(library.members[m].borrowed_books) :
            library.members[m].borrowed_books[i] \in DOMAIN library.books

\* The books and the members a step takes out of the library.
DeletedBooks == (DOMAIN library.books) \ (DOMAIN library'.books)

DeletedMembers == (DOMAIN library.members) \ (DOMAIN library'.members)

\* C26: a book is never deleted while some member holds a borrow record for it,
\* a member is never deleted while holding borrow records, and so every borrow
\* record refers to a book that still exists.
C26_NoDanglingRecords ==
    /\ []RecordsReferToBooks
    /\ [][/\ \A b \in DeletedBooks : Holders(b) = {}
          /\ \A m \in DeletedMembers : library.members[m].borrowed_books = <<>>]_vars

\* The number of borrow records for the book in a member's list.
Records(borrowed_books, book_id) ==
    Cardinality({i \in 1..Len(borrowed_books) : borrowed_books[i] = book_id})

\* The member ids and book ids a call can be made with: those ever given, 0 and
\* one beyond the last.
MemberIds == 0..(MaxMembers + 1)

BookIds == 0..(MaxBooks + 1)

\* The conditions under which the claim says issue_book fails: unknown member,
\* unknown book, no copy available, or the member already holds the book.
IssueMustFail(lib, member_id, book_id) ==
    \/ member_id \notin DOMAIN lib.members
    \/ book_id \notin DOMAIN lib.books
    \/ lib.books[book_id].available_copies <= 0
    \/ Holds(lib.members[member_id].borrowed_books, book_id)

\* The conditions under which the claim says return_book fails: unknown member,
\* unknown book, or the member did not borrow the book.
ReturnMustFail(lib, member_id, book_id) ==
    \/ member_id \notin DOMAIN lib.members
    \/ book_id \notin DOMAIN lib.books
    \/ ~Holds(lib.members[member_id].borrowed_books, book_id)

\* C27: issue_book and return_book called with an unknown member, an unknown
\* book, no copy available, a book the member already holds, or a book the
\* member did not borrow raise ValueError and leave every available_copies and
\* borrowed_books as they were; a call that succeeds leaves the member with
\* exactly one record (issue) or none (return) for the book, so no member ever
\* holds two records for the same book.
C27_FailedCallsChangeNothing ==
    /\ \A m \in DOMAIN library.members, b \in BookIds :
          Records(library.members[m].borrowed_books, b) <= 1
    /\ \A m \in MemberIds, b \in BookIds :
          LET issued == Library_issue_book(library, m, b)
              returned == Library_return_book(library, m, b)
          IN  /\ IF IssueMustFail(library, m, b)
                 THEN issued.error # NoError /\ issued.library = library
                 ELSE /\ issued.error = NoError
                      /\ Records(issued.library.members[m].borrowed_books, b) = 1
                      /\ issued.library.books[b].available_copies
                            = library.books[b].available_copies - 1
              /\ IF ReturnMustFail(library, m, b)
                 THEN returned.error # NoError /\ returned.library = library
                 ELSE /\ returned.error = NoError
                      /\ Records(returned.library.members[m].borrowed_books, b) = 0
                      /\ returned.library.books[b].available_copies
                            = library.books[b].available_copies + 1

\* A member holds a book that still has a copy on the shelf, and another member
\* does not hold it: a second issue to the first member must fail for the record
\* alone, an issue to the other must succeed.
C27_Witness ==
    \E m \in DOMAIN library.members, b \in DOMAIN library.books :
        /\ Holds(library.members[m].borrowed_books, b)
        /\ library.books[b].available_copies > 0
        /\ \E n \in DOMAIN library.members :
              /\ ~Holds(library.members[n].borrowed_books, b)
              /\ ~IssueMustFail(library, n, b)

====
